---- MODULE Spec2Model ----
(***************************************************************************)
(* A model of generic-persistence (src/src/lib.rs): the PersistenceManager *)
(* trait, the Persistent objects Widget and Thingy, and the in-memory      *)
(* TransientPersistence that stores each object as its serde_json text     *)
(* under the object's id.                                                  *)
(*                                                                         *)
(* Text is modelled character by character: a JSON text is a sequence of   *)
(* one-character strings, produced by to_string and read back by from_str. *)
(***************************************************************************)
EXTENDS Integers, Sequences, FiniteSets, TLC

VARIABLES
    objects,    \* TransientPersistence.objects: HashMap<ObjectId, String>
    fut,        \* the future a caller holds on the persistence, not yet completed
    last,       \* the operation that completed last and the value it returned
    saved       \* history: per id, the object of the last save that returned Ok

vars == <<objects, fut, last, saved>>

----------------------------------------------------------------------------
(* Bounds of the model *)

\* Number of distinct ObjectIds the callers mint.
NumIds == 2

\* Number of hex digits of an id's text (a Uuid has 32; the hyphens are left out).
UuidDigits == 2

----------------------------------------------------------------------------
(* Data *)

\* pub type ObjectId = Uuid
ObjectId == 1..NumIds

\* Widget.value: u32 (samples: the least value, the test's value, and the
\* greatest integer TLC represents)
U32Values == {0, 23, 2147483647}

\* Thingy.value: String (samples: empty, plain, the characters serde_json
\* escapes, and a string of digits)
StringValues == {<<>>, <<"a">>, <<"\"">>, <<"\\">>, <<"\\", "\"">>, <<"2", "3">>}

\* struct Widget { id: ObjectId, pub value: u32 }
Widget == [type : {"Widget"}, id : ObjectId, value : U32Values]

\* struct Thingy { id: ObjectId, pub value: String }
Thingy == [type : {"Thingy"}, id : ObjectId, value : StringValues]

\* A type T: Persistent + Serialize whose Serialize implementation reports an
\* error: save<T> is generic, and line 123 handles that error.
Unencodable == [type : {"Unencodable"}, id : ObjectId, value : {0}]

\* The types get_by_id is asked for (T: Persistent + Deserialize).
DecodableTypes == {"Widget", "Thingy"}

Encodable == Widget \cup Thingy

Persistent == Encodable \cup Unencodable

\* fn id(&self) -> ObjectId { self.id }
id(object) == object.id

\* enum TransientError { NoObject, BadObject }
NoObject == "NoObject"
BadObject == "BadObject"
TransientError == {NoObject, BadObject}

\* Result<T, E>
Ok(v) == [ok |-> TRUE, val |-> v]
Err(e) == [ok |-> FALSE, err |-> e]

\* The unit value of Result<(), E>.
Unit == [type |-> "()"]

----------------------------------------------------------------------------
(* serde_json::to_string *)

Digits == <<"0", "1", "2", "3", "4", "5", "6", "7", "8", "9">>
HexDigits == Digits \o <<"a", "b", "c", "d", "e", "f">>

RECURSIVE NatToStr(_)
NatToStr(n) ==
    IF n < 10 THEN <<Digits[n + 1]>>
    ELSE Append(NatToStr(n \div 10), Digits[(n % 10) + 1])

RECURSIVE HexFixed(_, _)
HexFixed(n, width) ==
    IF width = 0 THEN <<>>
    ELSE Append(HexFixed(n \div 16, width - 1), HexDigits[(n % 16) + 1])

\* Uuid's Serialize for a human-readable format: the id as lower-case hex text.
UuidToStr(u) == HexFixed(u, UuidDigits)

\* Escape with the escaping left out.
EscapeNothing(s) == s

RECURSIVE Escape(_)
Escape(s) ==
    IF s = <<>> THEN <<>>
    ELSE LET c == Head(s)
         IN  (IF c = "\"" \/ c = "\\" THEN <<"\\", c>> ELSE <<c>>) \o Escape(Tail(s))

\* A JSON string: the escaped characters between quotes.
JsonString(s) == <<"\"">> \o Escape(s) \o <<"\"">>

KeyId == <<"i", "d">>
KeyValue == <<"v", "a", "l", "u", "e">>

JsonStruct(idText, valueText) ==
    <<"{">> \o JsonString(KeyId) \o <<":">> \o idText \o <<",">>
            \o JsonString(KeyValue) \o <<":">> \o valueText \o <<"}">>

\* serde_json::to_string(object) with the derived Serialize of Widget and Thingy.
to_string(object) ==
    CASE object.type = "Widget" ->
            Ok(JsonStruct(JsonString(UuidToStr(object.id)), NatToStr(object.value)))
      [] object.type = "Thingy" ->
            Ok(JsonStruct(JsonString(UuidToStr(object.id)), JsonString(object.value)))
      [] OTHER -> Err("serialize")

----------------------------------------------------------------------------
(* serde_json::from_str *)

\* The outcome of reading one piece of the text: the value read and the
\* position after it, or a failure.
Read(v, next) == [ok |-> TRUE, val |-> v, next |-> next]
Fail == [ok |-> FALSE]

\* A JSON value as read: a string or a number (its digits).
StrVal(s) == [kind |-> "string", str |-> s]
NumVal(d) == [kind |-> "number", str |-> d]

IsDigit(c) == \E k \in 1..10 : Digits[k] = c

\* Reads the rest of a string whose opening quote is before position i:
\* up to the closing quote, undoing the two escapes.
RECURSIVE ScanString(_, _, _)
ScanString(s, i, acc) ==
    IF i > Len(s) THEN Fail
    ELSE IF s[i] = "\"" THEN Read(StrVal(acc), i + 1)
    ELSE IF s[i] = "\\"
         THEN IF i + 1 <= Len(s) /\ (s[i + 1] = "\"" \/ s[i + 1] = "\\")
              THEN ScanString(s, i + 2, Append(acc, s[i + 1]))
              ELSE Fail
    ELSE ScanString(s, i + 1, Append(acc, s[i]))

RECURSIVE ScanDigits(_, _, _)
ScanDigits(s, i, acc) ==
    IF i <= Len(s) /\ IsDigit(s[i])
    THEN ScanDigits(s, i + 1, Append(acc, s[i]))
    ELSE Read(NumVal(acc), i)

\* A number: its digits; a leading zero is followed by no digit.
ScanNumber(s, i) ==
    LET r == ScanDigits(s, i, <<>>)
    IN  IF Len(r.val.str) > 1 /\ r.val.str[1] = "0" THEN Fail ELSE r

\* One value starting at position i: a string or an unsigned number.
ScanValue(s, i) ==
    IF i > Len(s) THEN Fail
    ELSE IF s[i] = "\"" THEN ScanString(s, i + 1, <<>>)
    ELSE IF IsDigit(s[i]) THEN ScanNumber(s, i)
    ELSE Fail

\* The members of an object from position i (after "{" or ","): the
\* sequence of <<key, value>> read up to "}", which must end the text.
RECURSIVE ScanMembers(_, _, _)
ScanMembers(s, i, acc) ==
    IF i > Len(s) \/ s[i] # "\"" THEN Fail
    ELSE LET k == ScanString(s, i + 1, <<>>)
         IN  IF ~k.ok \/ k.next > Len(s) \/ s[k.next] # ":" THEN Fail
             ELSE LET v == ScanValue(s, k.next + 1)
                  IN  IF ~v.ok \/ v.next > Len(s) THEN Fail
                      ELSE LET members == Append(acc, <<k.val.str, v.val>>)
                           IN  IF s[v.next] = "," THEN ScanMembers(s, v.next + 1, members)
                               ELSE IF s[v.next] = "}" /\ v.next = Len(s)
                                    THEN Read(members, v.next + 1)
                               ELSE Fail

\* A JSON object whose values are strings and numbers.
ScanObject(s) ==
    IF Len(s) < 2 \/ s[1] # "{" THEN Fail
    ELSE IF s[2] = "}" THEN (IF Len(s) = 2 THEN Read(<<>>, 3) ELSE Fail)
    ELSE ScanMembers(s, 2, <<>>)

HexValue(c) == (CHOOSE k \in 1..16 : HexDigits[k] = c) - 1

IsHex(c) == \E k \in 1..16 : HexDigits[k] = c

RECURSIVE HexToNat(_)
HexToNat(s) ==
    IF s = <<>> THEN 0 ELSE 16 * HexToNat(SubSeq(s, 1, Len(s) - 1)) + HexValue(s[Len(s)])

\* Uuid's Deserialize: a string of the id's hex digits.
UuidFromValue(v) ==
    IF v.kind = "string" /\ Len(v.str) = UuidDigits /\ \A k \in 1..Len(v.str) : IsHex(v.str[k])
    THEN Ok(HexToNat(v.str))
    ELSE Err("uuid")

\* u32::MAX as text.
U32MaxStr == <<"4", "2", "9", "4", "9", "6", "7", "2", "9", "5">>

DigitValue(c) == (CHOOSE k \in 1..10 : Digits[k] = c) - 1

\* Whether the digits a are at most the digits b, of the same length.
RECURSIVE DigitsLeq(_, _)
DigitsLeq(a, b) ==
    IF a = <<>> THEN TRUE
    ELSE IF DigitValue(Head(a)) < DigitValue(Head(b)) THEN TRUE
    ELSE IF DigitValue(Head(a)) > DigitValue(Head(b)) THEN FALSE
    ELSE DigitsLeq(Tail(a), Tail(b))

RECURSIVE StrToNat(_)
StrToNat(d) ==
    IF d = <<>> THEN 0 ELSE 10 * StrToNat(SubSeq(d, 1, Len(d) - 1)) + DigitValue(d[Len(d)])

\* u32's Deserialize: a number in 0 ..= u32::MAX.
U32FromValue(v) ==
    IF v.kind = "number"
       /\ (Len(v.str) < Len(U32MaxStr)
           \/ (Len(v.str) = Len(U32MaxStr) /\ DigitsLeq(v.str, U32MaxStr)))
    THEN Ok(StrToNat(v.str))
    ELSE Err("u32")

\* StringFromValue taking a number's digits for a string.
StringFromAnyValue(v) == Ok(v.str)

\* String's Deserialize: a JSON string.
StringFromValue(v) ==
    IF v.kind = "string" THEN Ok(v.str) ELSE Err("string")

\* The values of the members named key, in the order read.
RECURSIVE Field(_, _)
Field(members, key) ==
    IF members = <<>> THEN <<>>
    ELSE (IF Head(members)[1] = key THEN <<Head(members)[2]>> ELSE <<>>)
         \o Field(Tail(members), key)

\* The derived Deserialize of a struct { id, value }: each field once (a
\* missing or repeated field is an error), other members ignored.
DecodeStruct(T, members) ==
    LET ids == Field(members, KeyId)
        values == Field(members, KeyValue)
    IN  IF Len(ids) # 1 \/ Len(values) # 1 THEN Err("field")
        ELSE LET i == UuidFromValue(ids[1])
                 v == IF T = "Widget" THEN U32FromValue(values[1])
                                      ELSE StringFromValue(values[1])
             IN  IF i.ok /\ v.ok
                 THEN Ok([type |-> T, id |-> i.val, value |-> v.val])
                 ELSE Err("value")

\* serde_json::from_str::<T>(json)
from_str(T, json) ==
    LET r == ScanObject(json)
    IN  IF r.ok THEN DecodeStruct(T, r.val) ELSE Err("syntax")

----------------------------------------------------------------------------
(* TransientPersistence *)

\* HashMap::insert: the map with key bound to value, other keys untouched.
insert(map, key, value) ==
    [k \in (DOMAIN map) \cup {key} |-> IF k = key THEN value ELSE map[k]]

\* HashMap::new()
new == <<>>

\* The outcome of a method on the persistence: what it returns and the
\* objects map it leaves.
Outcome(ret, map) == [ret |-> ret, objects |-> map]

\* The object types bound to a backend: TransientPersistence holds the
\* objects map and nothing else, and has no operation that registers a type.
Registered == {}

\* get_by_id returning a default object for an id that is absent.
get_by_id_default(self, T, oid) ==
    IF oid \notin DOMAIN self
    THEN Outcome(Ok([type |-> T, id |-> oid, value |-> IF T = "Widget" THEN 0 ELSE <<>>]), self)
    ELSE LET r == from_str(T, self[oid])
         IN  Outcome(IF r.ok THEN r ELSE Err(BadObject), self)

\* get_by_id dropping a record it cannot decode.
get_by_id_evict(self, T, oid) ==
    IF oid \notin DOMAIN self THEN Outcome(Err(NoObject), self)
    ELSE LET r == from_str(T, self[oid])
         IN  IF r.ok THEN Outcome(r, self)
             ELSE Outcome(Err(BadObject), [k \in (DOMAIN self) \ {oid} |-> self[k]])

\* get_by_id taking the record out of the map (HashMap::remove for HashMap::get).
get_by_id_take(self, T, oid) ==
    IF oid \notin DOMAIN self THEN Outcome(Err(NoObject), self)
    ELSE LET r == from_str(T, self[oid])
         IN  Outcome(IF r.ok THEN r ELSE Err(BadObject),
                     [k \in (DOMAIN self) \ {oid} |-> self[k]])

\* async fn get_by_id<T>(&self, id: ObjectId) -> Result<T, Self::Error>
get_by_id(self, T, oid) ==
    IF oid \notin DOMAIN self THEN Outcome(Err(NoObject), self)
    ELSE LET r == from_str(T, self[oid])
         IN  Outcome(IF r.ok THEN r ELSE Err(BadObject), self)

\* save keeping the record an id already has (entry().or_insert for insert).
save_keep_first(self, object) ==
    LET json == to_string(object)
    IN  IF ~json.ok THEN Outcome(Err(BadObject), self)
        ELSE IF id(object) \in DOMAIN self THEN Outcome(Ok(Unit), self)
        ELSE Outcome(Ok(Unit), insert(self, id(object), json.val))

\* save refusing every type that is not registered.
save_registered(self, object) ==
    LET json == to_string(object)
    IN  IF object.type \notin Registered THEN Outcome(Err("Unregistered"), self)
        ELSE IF ~json.ok THEN Outcome(Err(BadObject), self)
        ELSE Outcome(Ok(Unit), insert(self, id(object), json.val))

\* save rebuilding the map from the one object saved.
save_fresh(self, object) ==
    LET json == to_string(object)
    IN  IF ~json.ok THEN Outcome(Err(BadObject), self)
        ELSE Outcome(Ok(Unit), insert(new, id(object), json.val))

\* save leaving the text written so far in the map when encoding fails.
save_partial(self, object) ==
    LET json == to_string(object)
    IN  IF ~json.ok THEN Outcome(Err(BadObject), insert(self, id(object), <<"{">>))
        ELSE Outcome(Ok(Unit), insert(self, id(object), json.val))

\* save keying the record by another id than the object's.
save_wrong_key(self, object) ==
    LET json == to_string(object)
    IN  IF ~json.ok THEN Outcome(Err(BadObject), self)
        ELSE Outcome(Ok(Unit), insert(self, (id(object) % NumIds) + 1, json.val))

\* async fn save<T>(&mut self, object: &T) -> Result<(), Self::Error>
save(self, object) ==
    LET json == to_string(object)
    IN  IF ~json.ok THEN Outcome(Err(BadObject), self)
        ELSE Outcome(Ok(Unit), insert(self, id(object), json.val))

----------------------------------------------------------------------------
(* Callers.  Both methods are async fns: a call makes a future that borrows *)
(* the persistence (save borrows it mutably, so no other call can be made   *)
(* while its future lives), the body runs when the future is polled, and it *)
(* has no await point, so the first poll runs it to its end.  A caller      *)
(* cancels an operation by dropping its future.  get_by_id futures borrow   *)
(* the persistence shared and only read it; the model holds one future at a *)
(* time, which orders the operations in every way their effects can be      *)
(* ordered.                                                                 *)

NoFut == [op |-> "none"]
NoLast == [op |-> "none"]
NoObj == [type |-> "None"]

SaveFut(object) == [op |-> "save", obj |-> object]
GetFut(T, oid) == [op |-> "get", type |-> T, id |-> oid]

\* let mut persistence = TransientPersistence::new();
Init ==
    /\ objects = new
    /\ fut = NoFut
    /\ last = NoLast
    /\ saved = [k \in ObjectId |-> NoObj]

\* persistence.save(&object): the future is made, nothing has run.
CallSave(object) ==
    /\ fut = NoFut
    /\ fut' = SaveFut(object)
    /\ last' = NoLast
    /\ UNCHANGED <<objects, saved>>

\* persistence.get_by_id::<T>(id): the future is made, nothing has run.
CallGet(T, oid) ==
    /\ fut = NoFut
    /\ fut' = GetFut(T, oid)
    /\ last' = NoLast
    /\ UNCHANGED <<objects, saved>>

\* .await on a save future: the whole body of save runs.
PollSave ==
    /\ fut.op = "save"
    /\ LET out == save(objects, fut.obj)
           k == id(fut.obj)
       IN  /\ objects' = out.objects
           /\ last' = [op |-> "save", obj |-> fut.obj, ret |-> out.ret,
                       replaced |-> k \in DOMAIN objects /\ k \in DOMAIN out.objects
                                    /\ out.objects[k] # objects[k]]
           /\ saved' = IF out.ret.ok THEN [saved EXCEPT ![k] = fut.obj] ELSE saved
    /\ fut' = NoFut

\* .await on a get_by_id future: the whole body of get_by_id runs.
PollGet ==
    /\ fut.op = "get"
    /\ LET out == get_by_id(objects, fut.type, fut.id)
       IN  /\ objects' = out.objects
           /\ last' = [op |-> "get", type |-> fut.type, id |-> fut.id, ret |-> out.ret]
    /\ fut' = NoFut
    /\ UNCHANGED saved

\* The caller drops a future it never polled: the operation is cancelled.
Drop ==
    /\ fut # NoFut
    /\ fut' = NoFut
    /\ last' = [op |-> "drop", of |-> fut]
    /\ UNCHANGED <<objects, saved>>

Next ==
    \/ \E object \in Persistent : CallSave(object)
    \/ \E T \in DecodableTypes, oid \in ObjectId : CallGet(T, oid)
    \/ PollSave
    \/ PollGet
    \/ Drop

Spec == Init /\ [][Next]_vars

----------------------------------------------------------------------------
(* Properties *)

\* The text a save of object leaves under its id, computed from the object.
RecordOf(object) == to_string(object).val

\* The map with the record of object put under its id and nothing else changed.
Applied(map, object) ==
    [k \in (DOMAIN map) \cup {object.id} |-> IF k = object.id THEN RecordOf(object) ELSE map[k]]

\* C1: round trip.  Right after a save of o that returned Ok, get_by_id of
\* o's type and id returns Ok of an object equal to o in id and value; and a
\* get_by_id that ran for an id and the type last saved under it returned
\* exactly that object.
C1_RoundTrip ==
    /\ (last.op = "save" /\ last.ret.ok)
          => get_by_id(objects, last.obj.type, id(last.obj)).ret = Ok(last.obj)
    /\ (last.op = "get" /\ saved[last.id] # NoObj /\ saved[last.id].type = last.type)
          => last.ret = Ok(saved[last.id])

\* A Thingy whose value holds both escaped characters was saved and read back.
C1_Witness ==
    /\ last.op = "get"
    /\ last.ret = Ok([type |-> "Thingy", id |-> last.id, value |-> <<"\\", "\"">>])
    /\ saved[last.id].type = "Thingy"

\* C2: overwrite.  After any sequence of saves the record of an id is exactly
\* the encoding of the last object saved under it, and get_by_id returns that
\* object: not an earlier one, not a merge.
C2_Overwrite ==
    \A k \in ObjectId :
        saved[k] # NoObj =>
            /\ k \in DOMAIN objects
            /\ objects[k] = RecordOf(saved[k])
            /\ get_by_id(objects, saved[k].type, k).ret = Ok(saved[k])

\* A save has replaced a different record of the same id.
C2_Witness ==
    /\ last.op = "save"
    /\ last.ret.ok
    /\ last.replaced

\* C3: not found.  get_by_id of an id no save has stored returns NoObject
\* (the "not found" kind) for every type, also when other ids are stored.
C3_NotFound ==
    /\ \A k \in ObjectId :
          saved[k] = NoObj =>
              \A T \in DecodableTypes : get_by_id(objects, T, k).ret = Err(NoObject)
    /\ (last.op = "get" /\ saved[last.id] = NoObj) => last.ret = Err(NoObject)

\* A get_by_id of a never-saved id returned NoObject while another id is stored.
C3_Witness ==
    /\ last.op = "get"
    /\ last.ret = Err(NoObject)
    /\ \E k \in ObjectId : k # last.id /\ saved[k] # NoObj

C5_Isolation ==
    /\ \A k \in ObjectId :
          saved[k] # NoObj =>
              \A T \in DecodableTypes \ {saved[k].type} :
                  get_by_id(objects, T, k).ret = Err(BadObject)
    /\ (last.op = "get" /\ saved[last.id] # NoObj /\ saved[last.id].type # last.type)
          => last.ret = Err(BadObject)

\* A Widget was asked for under the id of a Thingy whose value is digits.
C5_Witness ==
    /\ last.op = "get"
    /\ last.type = "Widget"
    /\ saved[last.id] = [type |-> "Thingy", id |-> last.id, value |-> <<"2", "3">>]
    /\ last.ret = Err(BadObject)

\* C6: get_by_id never mutates.  No step of a get_by_id (its poll, whatever
\* it returns, or its cancellation) changes the objects map.
C6_GetNeverMutates == [][fut.op = "get" => objects' = objects]_vars

\* A get_by_id has run on a map holding every id and found a record it cannot decode.
C6_Witness ==
    /\ last.op = "get"
    /\ last.ret = Err(BadObject)
    /\ DOMAIN objects = ObjectId

\* C7: saves to different ids do not interfere.  With a save of o1 about to
\* run: it changes the record of no other id; run with a save of any o2 of
\* another id, both orders leave the same map; and a get_by_id of another id
\* returns the same with and without it.
C7_NoInterference ==
    fut.op = "save" =>
        LET o1 == fut.obj
            after == save(objects, o1).objects
        IN  /\ \A k \in ObjectId \ {id(o1)} :
                  /\ k \in DOMAIN after <=> k \in DOMAIN objects
                  /\ k \in DOMAIN objects => after[k] = objects[k]
            /\ \A o2 \in Persistent :
                  id(o2) # id(o1) =>
                      save(after, o2).objects = save(save(objects, o2).objects, o1).objects
            /\ \A T \in DecodableTypes, k \in ObjectId \ {id(o1)} :
                  get_by_id(after, T, k).ret = get_by_id(objects, T, k).ret

\* A save is about to run while another id holds a record.
C7_Witness ==
    /\ fut.op = "save"
    /\ fut.obj \in Encodable
    /\ \E k \in ObjectId : k # id(fut.obj) /\ saved[k] # NoObj

\* C8: no implicit deletion.  A record exists exactly for the ids saved with
\* success; no step removes one, and get_by_id of the saved type never
\* returns NoObject for it afterwards.
C8_NeverDeleted ==
    [][\A k \in ObjectId :
          /\ k \in DOMAIN objects' <=> saved'[k] # NoObj
          /\ k \in DOMAIN objects =>
                /\ k \in DOMAIN objects'
                /\ get_by_id(objects', saved'[k].type, k).ret # Err(NoObject)]_vars

\* A record has outlived a get_by_id of its own id and type.
C8_Witness ==
    /\ last.op = "get"
    /\ last.ret.ok
    /\ last.id \in DOMAIN objects
    /\ DOMAIN objects = {last.id}

\* C9: save is all or nothing.  A step of a save leaves the map as it was or
\* as it was with the whole record of the object put under its id; a
\* cancelled save and a save that returns an error leave it as it was, a
\* save that returns Ok leaves it applied; and every record in the map
\* decodes as one of the types.
C9_AllOrNothing ==
    [][fut.op = "save" =>
          LET o == fut.obj
              applied == to_string(o).ok /\ objects' = Applied(objects, o)
          IN  /\ objects' = objects \/ applied
              /\ last'.op = "drop" => objects' = objects
              /\ (last'.op = "save" /\ ~last'.ret.ok) => objects' = objects
              /\ (last'.op = "save" /\ last'.ret.ok) => applied
              /\ \A k \in DOMAIN objects' :
                    \E T \in DecodableTypes : get_by_id(objects', T, k).ret.ok]_vars

\* A save was cancelled on a map that holds records.
C9_Witness ==
    /\ last.op = "drop"
    /\ last.of.op = "save"
    /\ objects # new

\* C10: key and identifier agree.  Each record under key k is the encoding of
\* an object whose id is k, and whatever get_by_id(k) returns Ok has id k.
C10_KeyIsId ==
    \A k \in DOMAIN objects :
        /\ \E o \in Encodable : id(o) = k /\ objects[k] = RecordOf(o)
        /\ \A T \in DecodableTypes :
              LET r == get_by_id(objects, T, k).ret
              IN  r.ok => id(r.val) = k

\* Every id holds a record, of both types.
C10_Witness ==
    /\ DOMAIN objects = ObjectId
    /\ \E j, k \in ObjectId : saved[j].type = "Widget" /\ saved[k].type = "Thingy"

====
